---- MODULE Spec2Model ----
(***************************************************************************)
(* A model of the analogue-matching code of the repository:                *)
(*   src/Python/analogue_search.py  (select_time_separated_analogues,      *)
(*                                   load_anomaly_data, find_analogues,    *)
(*                                   compute_latitude_weights,             *)
(*                                   compute_euclidean_distances,          *)
(*                                   process_event, process_all_events,    *)
(*                                   main)                                 *)
(*   src/Python/select_analogues_from_distances.py  (main)                 *)
(*   src/Python/dask_slice.py       (compute_calendar_mask)                *)
(*   src/Python/cdo_slice.py        (compute_calendar_window_dates,        *)
(*                                   create_sliced_anomaly)                *)
(* Timestamps are whole days, counted from 1 January 2019 (day 0);         *)
(* a Timedelta is a number of days; a distance is an integer (only the     *)
(* order of distances is used by the selection).                           *)
(***************************************************************************)
EXTENDS Integers, Sequences, FiniteSets, TLC

VARIABLES
    \* ---- a call of select_time_separated_analogues --------------------
    df,              \* the candidate table handed to the function
    df0,             \* history: the table as the caller built it
    n_analogues,     \* target count N
    min_separation,  \* minimum separation, in days
    sort_kind,       \* how this build's sort_values orders equal keys
    pc,              \* "idle", "once" (one call returned), "twice"
    df_sorted,       \* local of the last call
    chosen_indices,  \* local of the last call
    result,          \* the DataFrame the last call returned
    prev_result,     \* history: what the call before the last returned
    \* ---- a call of find_analogues --------------------------------------
    event,           \* [has_snapshot, snapshot_date]
    analogue_config, \* [n_analogues, window_days, periods]
    period,          \* "none", "past" or "present"
    anom_files,      \* F01 anomaly files: day |-> field value, per time step
    sliced_file,     \* <<>> (no pre-sliced file) or <<content>>
    fa,              \* outcome of find_analogues
    \* ---- a call of the calendar-window slicers -------------------------
    cal,             \* inputs and outcome of compute_calendar_mask and
                     \* compute_calendar_window_dates
    \* ---- a call of compute_latitude_weights ----------------------------
    lw,              \* the latitude and longitude axes, and the outcome
    \* ---- a call of compute_euclidean_distances -------------------------
    dm,              \* the series, the reference, the weights, the outcome
    \* ---- the commands that write the analogue files --------------------
    events,          \* the events of extreme_events.yaml, in file order
    out_files,       \* per event name: the four CSV files of the suffix
    pe,              \* outcome of the last command
    \* ---- a call of create_sliced_anomaly (CDO) -------------------------
    cs               \* the _work directory, the merged file, the outcome

selvars == <<df, df0, n_analogues, min_separation, sort_kind, pc,
             df_sorted, chosen_indices, result, prev_result>>
favars == <<event, analogue_config, period, anom_files, sliced_file, fa>>
gridvars == <<cal, lw, dm>>
runvars == <<events, out_files, pe, cs>>
vars == <<selvars, favars, gridvars, runvars>>

----------------------------------------------------------------------------
(* Bounds of the checked instances *)

MaxLen == 3      \* rows of a candidate table
MaxSep == 2      \* largest minimum separation / smoothing window, in days

Dates == 0..(MaxSep + 1)
Distances == {1, 2}
Targets == 0..MaxLen
Separations == 0..MaxSep

Abs(x) == IF x < 0 THEN -x ELSE x

----------------------------------------------------------------------------
(* select_time_separated_analogues *)

\* The row r put into the key-ordered table s.  A stable sort leaves rows of
\* equal distance in their input order; pandas' default kind ('quicksort')
\* promises no order among them, and "reversed" is the other extreme.
RECURSIVE InsertRow(_, _, _)
InsertRow(s, r, kind) ==
    IF s = <<>> THEN <<r>>
    ELSE IF Head(s).distance < r.distance
            \/ (kind = "stable" /\ Head(s).distance = r.distance)
         THEN <<Head(s)>> \o InsertRow(Tail(s), r, kind)
         ELSE <<r>> \o s

RECURSIVE SortFrom(_, _, _, _)
SortFrom(rows, i, acc, kind) ==
    IF i > Len(rows) THEN acc
    ELSE SortFrom(rows, i + 1, InsertRow(acc, rows[i], kind), kind)

\* A plausible slip: ascending=False.
RECURSIVE InsertRowDesc(_, _, _)
InsertRowDesc(s, r, kind) ==
    IF s = <<>> THEN <<r>>
    ELSE IF Head(s).distance > r.distance
            \/ (kind = "stable" /\ Head(s).distance = r.distance)
         THEN <<Head(s)>> \o InsertRowDesc(Tail(s), r, kind)
         ELSE <<r>> \o s

RECURSIVE SortFromDesc(_, _, _, _)
SortFromDesc(rows, i, acc, kind) ==
    IF i > Len(rows) THEN acc
    ELSE SortFromDesc(rows, i + 1, InsertRowDesc(acc, rows[i], kind), kind)

SortValuesDescending(rows, kind) == SortFromDesc(rows, 1, <<>>, kind)

\* df.sort_values(distance_col).reset_index(drop=True): a new table.
SortValues(rows, kind) == SortFrom(rows, 1, <<>>, kind)

\* A plausible slip: a candidate exactly min_separation away is rejected too.
IsSeparatedStrictly(sorted, chosen, candidate_date, sep) ==
    \A k \in 1..Len(chosen) :
        ~(Abs(candidate_date - sorted[chosen[k]].date) <= sep)

\* The inner loop: is the candidate far enough from every chosen date.
IsSeparated(sorted, chosen, candidate_date, sep) ==
    \A k \in 1..Len(chosen) :
        ~(Abs(candidate_date - sorted[chosen[k]].date) < sep)

\* A plausible slip: only the most recently chosen date is compared.
IsSeparatedFromLast(sorted, chosen, candidate_date, sep) ==
    chosen = <<>>
    \/ ~(Abs(candidate_date - sorted[chosen[Len(chosen)]].date) < sep)

RECURSIVE WalkLast(_, _, _, _, _)
WalkLast(sorted, idx, chosen, n, sep) ==
    IF idx > Len(sorted) THEN chosen
    ELSE IF IsSeparatedFromLast(sorted, chosen, sorted[idx].date, sep)
         THEN LET ci == Append(chosen, idx)
              IN  IF Len(ci) >= n THEN ci
                  ELSE WalkLast(sorted, idx + 1, ci, n, sep)
         ELSE WalkLast(sorted, idx + 1, chosen, n, sep)

\* A plausible slip: the walk ends at the first rejected candidate.
RECURSIVE WalkBreak(_, _, _, _, _)
WalkBreak(sorted, idx, chosen, n, sep) ==
    IF idx > Len(sorted) THEN chosen
    ELSE IF IsSeparated(sorted, chosen, sorted[idx].date, sep)
         THEN LET ci == Append(chosen, idx)
              IN  IF Len(ci) >= n THEN ci
                  ELSE WalkBreak(sorted, idx + 1, ci, n, sep)
         ELSE chosen

\* The for loop over df_sorted.iterrows(), from row idx on, with the rows
\* chosen so far: the candidate is appended when separated, and only then is
\* the count compared with n.
RECURSIVE Walk(_, _, _, _, _)
Walk(sorted, idx, chosen, n, sep) ==
    IF idx > Len(sorted) THEN chosen
    ELSE IF IsSeparated(sorted, chosen, sorted[idx].date, sep)
         THEN LET ci == Append(chosen, idx)
              IN  IF Len(ci) >= n THEN ci
                  ELSE Walk(sorted, idx + 1, ci, n, sep)
         ELSE Walk(sorted, idx + 1, chosen, n, sep)

\* result['rank'] = range(1, len(result) + 1) on df_sorted.loc[chosen_indices]
WithRank(sorted, chosen) ==
    [k \in 1..Len(chosen) |->
        [f \in (DOMAIN sorted[chosen[k]]) \cup {"rank"} |->
            IF f = "rank" THEN k ELSE sorted[chosen[k]][f]]]

select_time_separated_analogues(rows, n, sep, kind) ==
    LET sorted == SortValues(rows, kind)
    IN  WithRank(sorted, Walk(sorted, 1, <<>>, n, sep))

----------------------------------------------------------------------------
(* Specification Spec: the selector applied, twice, to one candidate table *)

Rows == [date : Dates, distance : Distances]

Tables == UNION {[1..k -> Rows] : k \in 0..MaxLen}

\* The scenario of the design's test list: day1, day1+2d, day1+10d.
ScenarioTable ==
    <<[date |-> 0, distance |-> 10], [date |-> 2, distance |-> 15],
      [date |-> 10, distance |-> 20]>>

Inputs ==
    [df : Tables, n : Targets, sep : Separations]
        \cup {[df |-> ScenarioTable, n |-> 2, sep |-> 5]}

NoEvent == [has_snapshot |-> FALSE, snapshot_date |-> 0]
NoConfig == [n_analogues |-> 0, window_days |-> 0, periods |-> <<>>]
NoOutcome == [status |-> "start"]

\* No call of the slicers, of the weights or of the distances is modelled.
GridIdle ==
    /\ cal = NoOutcome
    /\ lw = NoOutcome
    /\ dm = NoOutcome

\* No command that writes files is modelled.
RunIdle ==
    /\ events = <<>>
    /\ out_files = <<>>
    /\ pe = NoOutcome
    /\ cs = NoOutcome

FAIdle ==
    /\ event = NoEvent
    /\ analogue_config = NoConfig
    /\ period = "none"
    /\ anom_files = <<>>
    /\ sliced_file = <<>>
    /\ fa = NoOutcome

Init ==
    /\ \E in \in Inputs :
        /\ df = in.df
        /\ df0 = in.df
        /\ n_analogues = in.n
        /\ min_separation = in.sep
    /\ sort_kind \in {"stable", "reversed"}
    /\ pc = "idle"
    /\ df_sorted = <<>>
    /\ chosen_indices = <<>>
    /\ result = <<>>
    /\ prev_result = <<>>
    /\ FAIdle
    /\ GridIdle
    /\ RunIdle

\* A plausible slip: df.sort_values(..., inplace=True) on the caller's table.
SelectCallInPlace ==
    /\ pc \in {"idle", "once"}
    /\ LET sorted == SortValues(df, sort_kind)
           chosen == Walk(sorted, 1, <<>>, n_analogues, min_separation)
       IN  /\ df' = sorted
           /\ df_sorted' = sorted
           /\ chosen_indices' = chosen
           /\ result' = WithRank(sorted, chosen)
    /\ prev_result' = result
    /\ pc' = IF pc = "idle" THEN "once" ELSE "twice"
    /\ UNCHANGED <<df0, n_analogues, min_separation, sort_kind, favars,
                   gridvars, runvars>>

\* One call select_time_separated_analogues(df, n_analogues, min_separation).
SelectCall ==
    /\ pc \in {"idle", "once"}
    /\ LET sorted == SortValues(df, sort_kind)
           chosen == Walk(sorted, 1, <<>>, n_analogues, min_separation)
       IN  /\ df_sorted' = sorted
           /\ chosen_indices' = chosen
           /\ result' = WithRank(sorted, chosen)
    /\ prev_result' = result
    /\ pc' = IF pc = "idle" THEN "once" ELSE "twice"
    /\ UNCHANGED <<df, df0, n_analogues, min_separation, sort_kind, favars,
                   gridvars, runvars>>

Next == SelectCall

Spec == Init /\ [][Next]_vars

Returned == pc \in {"once", "twice"}

----------------------------------------------------------------------------
(* Values that may be absent: None is <<>>, a present value x is <<x>> *)

None == <<>>
Some(x) == <<x>>

\* A plausible slip: the lower bound of a period is not applied.
SeriesGeAlways(x, bound) == TRUE


\* Series >= None and Series <= None: pandas answers False for every row
\* (a comparison of a numeric column with a missing scalar raises nothing).
SeriesGe(x, bound) == IF bound = None THEN FALSE ELSE x >= bound[1]
SeriesLe(x, bound) == IF bound = None THEN FALSE ELSE x <= bound[1]

\* Python's chained lo <= y <= hi on plain ints, where lo or hi may be None:
\* int <= None raises TypeError, and hi is not looked at when lo <= y fails.
ChainedLe(lo, y, hi) ==
    IF lo = None THEN "TypeError"
    ELSE IF ~(lo[1] <= y) THEN "false"
    ELSE IF hi = None THEN "TypeError"
    ELSE IF y <= hi[1] THEN "true" ELSE "false"

----------------------------------------------------------------------------
(* The calendar: Timestamp.year of a day number *)

IsLeap(y) == (y % 4 = 0 /\ y % 100 # 0) \/ y % 400 = 0
DaysInYear(y) == IF IsLeap(y) THEN 366 ELSE 365

RECURSIVE YearFrom(_, _)
YearFrom(y, d) ==
    IF d < 0 THEN YearFrom(y - 1, d + DaysInYear(y - 1))
    ELSE IF d < DaysInYear(y) THEN y
    ELSE YearFrom(y + 1, d - DaysInYear(y))

YearOf(d) == YearFrom(2019, d)

\* The day number of 1 January of year y.
RECURSIVE YearStart(_)
YearStart(y) ==
    IF y = 2019 THEN 0
    ELSE IF y > 2019 THEN YearStart(y - 1) + DaysInYear(y - 1)
    ELSE YearStart(y + 1) - DaysInYear(y)

DaysInMonth(y, m) ==
    IF m = 2 THEN (IF IsLeap(y) THEN 29 ELSE 28)
    ELSE IF m \in {4, 6, 9, 11} THEN 30 ELSE 31

\* Timestamp.dayofyear: 1 on 1 January, 365 or 366 on 31 December.
DayOfYear(d) == d - YearStart(YearOf(d)) + 1

\* Month and day of the r-th day (from 0) after the first of month m.
RECURSIVE MonthDayFrom(_, _, _)
MonthDayFrom(y, m, r) ==
    IF r < DaysInMonth(y, m) THEN [month |-> m, day |-> r + 1]
    ELSE MonthDayFrom(y, m + 1, r - DaysInMonth(y, m))

\* Timestamp.month and Timestamp.day
MonthOf(d) == MonthDayFrom(YearOf(d), 1, DayOfYear(d) - 1).month
DayOf(d) == MonthDayFrom(YearOf(d), 1, DayOfYear(d) - 1).day

RECURSIVE DaysBeforeMonth(_, _)
DaysBeforeMonth(y, m) ==
    IF m = 1 THEN 0 ELSE DaysBeforeMonth(y, m - 1) + DaysInMonth(y, m - 1)

\* pd.Timestamp(year=, month=, day=) of a date that exists.
Timestamp(y, m, dd) == YearStart(y) + DaysBeforeMonth(y, m) + dd - 1

\* strftime("%Y-%m-%d"): the year, month and day the string spells.
Strftime(d) == <<YearOf(d), MonthOf(d), DayOf(d)>>

Min(a, b) == IF a <= b THEN a ELSE b

----------------------------------------------------------------------------
(* load_anomaly_data *)

\* A plausible slip: the time steps are taken latest first.
RECURSIVE SortedTimesDescending(_)
SortedTimesDescending(S) ==
    IF S = {} THEN <<>>
    ELSE LET m == CHOOSE x \in S : \A y \in S : x >= y
         IN  <<m>> \o SortedTimesDescending(S \ {m})

\* The time steps of a file set, in time order (open_mfdataset by_coords).
RECURSIVE SortedTimes(_)
SortedTimes(S) ==
    IF S = {} THEN <<>>
    ELSE LET m == CHOOSE x \in S : \A y \in S : x <= y
         IN  <<m>> \o SortedTimes(S \ {m})

RestrictYears(files, lo, hi) ==
    [d \in {e \in DOMAIN files : lo <= YearOf(e) /\ YearOf(e) <= hi} |-> files[d]]

\* year_range is None or <<start_year, end_year>>, either of which may be
\* None; sliced is None or <<content of the pre-sliced file>>.
load_anomaly_data(files, year_range, sliced) ==
    IF sliced # None THEN [error |-> "", data |-> sliced[1]]
    ELSE IF DOMAIN files = {}
    THEN [error |-> "FileNotFoundError", data |-> <<>>]
    ELSE IF year_range = None THEN [error |-> "", data |-> files]
    ELSE LET years == {YearOf(d) : d \in DOMAIN files}
             kept == {y \in years :
                        ChainedLe(year_range[1], y, year_range[2]) = "true"}
         IN  IF \E y \in years :
                   ChainedLe(year_range[1], y, year_range[2]) = "TypeError"
             THEN [error |-> "TypeError", data |-> <<>>]
             ELSE IF kept = {}
             THEN [error |-> "FileNotFoundError", data |-> <<>>]
             ELSE [error |-> "",
                   data |-> [d \in {e \in DOMAIN files : YearOf(e) \in kept}
                                |-> files[d]]]

----------------------------------------------------------------------------
(* Reference extraction and the distance metric *)

\* data.sel(time=t, method='nearest'): of two equally near time steps pandas
\* takes the later one (the index is increasing).
Nearest(times, t) ==
    CHOOSE d \in times :
        \A e \in times :
            \/ Abs(d - t) < Abs(e - t)
            \/ (Abs(d - t) = Abs(e - t) /\ d >= e)

\* A floating-point value is a number, Num(x), or missing, NaN; the
\* arithmetic of two values is NaN as soon as one of them is.
NaN == <<>>
Num(x) == <<x>>
Sub(a, b) == IF a = NaN \/ b = NaN THEN NaN ELSE Num(a[1] - b[1])
Mul(a, b) == IF a = NaN \/ b = NaN THEN NaN ELSE Num(a[1] * b[1])

\* A plausible slip: the reference is not subtracted from the field.
RECURSIVE SumCellsNoReference(_, _, _, _)
SumCellsNoReference(field, reference, weights, c) ==
    IF c > Len(field) THEN 0
    ELSE LET weighted == Mul(Mul(field[c], field[c]), weights[c])
         IN  (IF weighted = NaN THEN 0 ELSE weighted[1])
             + SumCellsNoReference(field, reference, weights, c + 1)

\* weighted_diff_sq.sum(dim=['lat', 'lon']) over the cells from c on: the
\* sum of an xarray DataArray of floats skips NaN cells (skipna is on by
\* default for floating-point data), and is 0 when every cell is skipped.
RECURSIVE SumCells(_, _, _, _)
SumCells(field, reference, weights, c) ==
    IF c > Len(field) THEN 0
    ELSE LET diff == Sub(field[c], reference[c])
             diff_sq == Mul(diff, diff)
             weighted == Mul(diff_sq, weights[c])
         IN  (IF weighted = NaN THEN 0 ELSE weighted[1])
             + SumCells(field, reference, weights, c + 1)

\* d(t) = sum over cells of w * (data(t) - ref)^2, for every time step.
compute_euclidean_distances(data, reference, lat_weights) ==
    [t \in DOMAIN data |-> Num(SumCells(data[t], reference, lat_weights, 1))]

\* weights / weights.sum() on a one-cell grid.
OneCellWeights == <<Num(1)>>

----------------------------------------------------------------------------
(* find_analogues *)

\* A plausible slip: strict comparisons, which leave the two end days in.
snapshot_exclusion_open(date, centre, sep) ==
    date > centre - sep /\ date < centre + sep

\* The closed interval around the centre date.
snapshot_exclusion(date, centre, sep) ==
    date >= centre - sep /\ date <= centre + sep

\* A plausible slip: the requested date instead of the resolved one.
ExclusionCentreRequested(snapshot_date, actual_snapshot) == snapshot_date

\* The date the exclusion window is built around.
ExclusionCentre(snapshot_date, actual_snapshot) == actual_snapshot

Raised(e) == [status |-> "raised", error |-> e]

\* all_distances[mask].copy(): the rows of the table whose date is kept.
RECURSIVE Filter(_, _, _)
Filter(table, keep, i) ==
    IF i > Len(table) THEN <<>>
    ELSE (IF table[i].date \in keep THEN <<table[i]>> ELSE <<>>)
         \o Filter(table, keep, i + 1)

\* One call, from the snapshot_date test to the return.  The debug log file is
\* taken to be writable, so debug_log raises nothing.
find_analogues(ev, config, per, files, sliced, kind) ==
    IF ~ev.has_snapshot THEN Raised("ValueError")
    ELSE
    LET snapshot_date == ev.snapshot_date
        past_start == config.periods.past_start
        past_end == config.periods.past_end
        present_start == config.periods.present_start
        present_end == config.periods.present_end
        sep == config.window_days
        year_range == IF per = "past" THEN <<past_start, past_end>>
                      ELSE IF per = "present" THEN <<present_start, present_end>>
                      ELSE None
        loaded == load_anomaly_data(files, year_range, sliced)
        snapshot_year == YearOf(snapshot_date)
        in_range == IF year_range = None THEN "true"
                    ELSE ChainedLe(year_range[1], snapshot_year, year_range[2])
        ref_load == load_anomaly_data(
                        files, <<Some(snapshot_year), Some(snapshot_year)>>, None)
    IN  IF loaded.error # "" THEN Raised(loaded.error)
        ELSE IF in_range = "TypeError" THEN Raised("TypeError")
        ELSE IF in_range = "false" /\ ref_load.error # ""
        THEN Raised(ref_load.error)
        ELSE
        LET data_var == loaded.data
            ref_data == IF in_range = "false" THEN ref_load.data ELSE data_var
            actual_snapshot == Nearest(DOMAIN ref_data, snapshot_date)
            reference == ref_data[actual_snapshot]
            distances == compute_euclidean_distances(
                             data_var, reference, OneCellWeights)
            times == SortedTimes(DOMAIN data_var)
            all_distances ==
                [i \in 1..Len(times) |->
                    [date |-> times[i], distance |-> distances[times[i]][1],
                     year |-> YearOf(times[i])]]
            centre == ExclusionCentre(snapshot_date, actual_snapshot)
            past_mask ==
                {all_distances[i].date : i \in {j \in 1..Len(all_distances) :
                    /\ SeriesGe(all_distances[j].year, past_start)
                    /\ SeriesLe(all_distances[j].year, past_end)
                    /\ ~snapshot_exclusion(all_distances[j].date, centre, sep)}}
            present_mask ==
                {all_distances[i].date : i \in {j \in 1..Len(all_distances) :
                    /\ SeriesGe(all_distances[j].year, present_start)
                    /\ SeriesLe(all_distances[j].year, present_end)
                    /\ ~snapshot_exclusion(all_distances[j].date, centre, sep)}}
        IN  [status |-> "returned",
             all_distances |-> all_distances,
             past_df |->
                IF per # "present"
                THEN select_time_separated_analogues(
                         Filter(all_distances, past_mask, 1),
                         config.n_analogues, sep, kind)
                ELSE <<>>,
             present_df |->
                IF per # "past"
                THEN select_time_separated_analogues(
                         Filter(all_distances, present_mask, 1),
                         config.n_analogues, sep, kind)
                ELSE <<>>,
             past_mask |-> past_mask,
             present_mask |-> present_mask,
             actual_snapshot |-> actual_snapshot,
             reference_from |-> IF in_range = "false" THEN "separate read"
                                ELSE "searched data",
             searched |-> DOMAIN data_var]

----------------------------------------------------------------------------
(* Specification SpecFA: one call of find_analogues *)

\* Time steps the anomaly files may hold: 29 and 31 December 2019,
\* 1 and 3 January 2020.
Steps == {362, 364, 365, 367}

\* Requested snapshot dates: 30 December 2019 to 2 January 2020.
SnapshotDates == 363..366

\* Anomaly values of the one grid cell.
FieldValues == {Num(0), Num(1)}

FileSets == UNION {[S -> [1..1 -> FieldValues]] : S \in SUBSET Steps}

OptYears == {None, Some(2019), Some(2020)}

\* Both periods set (disjoint, or overlapping in 2020), or one boundary of
\* the disjoint configuration left unset.
PeriodConfigs ==
    {c \in [past_start : OptYears, past_end : OptYears,
            present_start : OptYears, present_end : OptYears] :
        \/ c = [past_start |-> Some(2019), past_end |-> Some(2020),
                present_start |-> Some(2020), present_end |-> Some(2020)]
        \/ /\ c.past_start \in {None, Some(2019)}
           /\ c.past_end \in {None, Some(2019)}
           /\ c.present_start \in {None, Some(2020)}
           /\ c.present_end \in {None, Some(2020)}
           /\ Cardinality({f \in DOMAIN c : c[f] = None}) <= 1}

Unset(config) == \E f \in DOMAIN config.periods : config.periods[f] = None

\* The pre-sliced file, when there is one, holds the time steps of all the
\* anomaly files, or only those of 2019.
SlicedFiles(files) ==
    {None} \cup
    {Some(RestrictYears(files, 2019, hi)) : hi \in
        {h \in {2019, 2020} : DOMAIN RestrictYears(files, 2019, h) # {}}}

SelIdle ==
    /\ df = <<>>
    /\ df0 = <<>>
    /\ n_analogues = 0
    /\ min_separation = 0
    /\ pc = "idle"
    /\ df_sorted = <<>>
    /\ chosen_indices = <<>>
    /\ result = <<>>
    /\ prev_result = <<>>

InitFA ==
    /\ SelIdle
    /\ sort_kind \in {"stable", "reversed"}
    /\ event \in {NoEvent} \cup
                 [has_snapshot : {TRUE}, snapshot_date : SnapshotDates]
    /\ analogue_config \in [n_analogues : {1, 2}, window_days : Separations,
                            periods : PeriodConfigs]
    /\ period \in {"none", "past", "present"}
    /\ anom_files \in FileSets
    /\ sliced_file \in SlicedFiles(anom_files)
    /\ fa = NoOutcome
    /\ GridIdle
    /\ RunIdle

FindAnaloguesCall ==
    /\ fa.status = "start"
    /\ fa' = find_analogues(event, analogue_config, period, anom_files,
                            sliced_file, sort_kind)
    /\ UNCHANGED <<selvars, event, analogue_config, period, anom_files,
                   sliced_file, gridvars, runvars>>

NextFA == FindAnaloguesCall

SpecFA == InitFA /\ [][NextFA]_vars

----------------------------------------------------------------------------
(* Claims about select_time_separated_analogues, checked under Spec *)

ChosenSet == {chosen_indices[k] : k \in 1..Len(chosen_indices)}

\* Row i of df_sorted is at least min_separation away from every chosen row
\* that the walk met before it.
PassesAt(i) ==
    \A j \in ChosenSet :
        j < i => Abs(df_sorted[i].date - df_sorted[j].date) >= min_separation

\* The number of rows chosen before row i.
ChosenBefore(i) == Cardinality({j \in ChosenSet : j < i})

\* C1: any two distinct records returned by select_time_separated_analogues
\* have dates at least min_separation apart.
C1_PairwiseSeparated ==
    Returned =>
        \A i, j \in 1..Len(result) :
            i # j => Abs(result[i].date - result[j].date) >= min_separation

\* C1 witness: three mutually separated records were returned after a closer
\* candidate was rejected between two acceptances.
C1_Witness ==
    /\ Returned
    /\ min_separation >= 1
    /\ Len(result) >= 2
    /\ \E i \in 1..Len(df_sorted) :
        i \notin ChosenSet /\ i < chosen_indices[Len(chosen_indices)]

\* C2 (as claimed): for every non-negative N the function returns at most N
\* records.
C2_AtMostN == Returned => Len(result) <= n_analogues

\* C3 (as claimed): the candidates are walked in ascending distance order; a
\* candidate is accepted exactly when it is min_separation away from every
\* date accepted before it and fewer than N have been accepted (the walk
\* stops once N are accepted); the scenario day1, day1+2d, day1+10d with N=2
\* and 5 days gives day1 as rank 1 and day1+10d as rank 2.
C3_GreedyWalk ==
    Returned =>
        /\ Len(df_sorted) = Len(df)
        /\ \A i, j \in 1..Len(df_sorted) :
            i < j => df_sorted[i].distance <= df_sorted[j].distance
        /\ \A r \in {df[i] : i \in 1..Len(df)} :
            Cardinality({i \in 1..Len(df) : df[i] = r})
                = Cardinality({i \in 1..Len(df_sorted) : df_sorted[i] = r})
        /\ \A i \in 1..Len(df_sorted) :
            i \in ChosenSet <=> (PassesAt(i) /\ ChosenBefore(i) < n_analogues)
        /\ (df = ScenarioTable /\ n_analogues = 2 /\ min_separation = 5) =>
            result = <<[date |-> 0, distance |-> 10, rank |-> 1],
                       [date |-> 10, distance |-> 20, rank |-> 2]>>

\* C4: the returned records carry the ranks 1..k in acceptance order, and
\* distance does not decrease as rank increases.
C4_RanksAscending ==
    Returned =>
        /\ Len(result) = Len(chosen_indices)
        /\ \A k \in 1..Len(result) :
            /\ result[k].rank = k
            /\ result[k].date = df_sorted[chosen_indices[k]].date
            /\ result[k].distance = df_sorted[chosen_indices[k]].distance
        /\ \A k \in 1..(Len(result) - 1) :
            /\ chosen_indices[k] < chosen_indices[k + 1]
            /\ result[k].distance <= result[k + 1].distance

\* C4 witness: two records of different distance were returned from a table
\* that was not in distance order.
C4_Witness ==
    /\ Returned
    /\ Len(result) >= 2
    /\ result[1].distance < result[Len(result)].distance
    /\ df # df_sorted

\* C5: when fewer than N candidates pass the separation test (the empty
\* table included) the call returns, and returns exactly those that passed.
C5_Underflow ==
    (Returned /\ Len(result) < n_analogues) =>
        /\ ChosenSet = {i \in 1..Len(df_sorted) : PassesAt(i)}
        /\ Len(result) = Cardinality(ChosenSet)
        /\ \A k \in 1..Len(result) :
            /\ result[k].date = df_sorted[chosen_indices[k]].date
            /\ result[k].distance = df_sorted[chosen_indices[k]].distance

\* C5 witness: fewer than N records were returned and a candidate that comes
\* before the last accepted one was rejected.
C5_Witness ==
    /\ Returned
    /\ Len(result) < n_analogues
    /\ Len(result) >= 2
    /\ \E i \in 1..Len(df_sorted) :
        i \notin ChosenSet /\ i < chosen_indices[Len(chosen_indices)]

----------------------------------------------------------------------------
(* Claims about find_analogues, checked under SpecFA *)

FAReturned == fa.status = "returned"

Periods == analogue_config.periods

\* The year lies in the configured closed range [lo, hi], both set.
InPeriod(year, lo, hi) ==
    lo # None /\ hi # None /\ lo[1] <= year /\ year <= hi[1]

\* The date lies in the closed interval of half-width sep around centre.
WithinWindow(date, centre, sep) == Abs(date - centre) <= sep

\* C7: every returned past analogue has its year in [past_start, past_end],
\* every present analogue in [present_start, present_end], and none lies in
\* the closed interval [anchor - min_separation, anchor + min_separation].
C7_PeriodAndExclusion ==
    FAReturned =>
        /\ \A k \in 1..Len(fa.past_df) :
            /\ InPeriod(YearOf(fa.past_df[k].date),
                        Periods.past_start, Periods.past_end)
            /\ ~WithinWindow(fa.past_df[k].date, fa.actual_snapshot,
                             analogue_config.window_days)
        /\ \A k \in 1..Len(fa.present_df) :
            /\ InPeriod(YearOf(fa.present_df[k].date),
                        Periods.present_start, Periods.present_end)
            /\ ~WithinWindow(fa.present_df[k].date, fa.actual_snapshot,
                             analogue_config.window_days)

\* C7 witness: both lists are non-empty while a time step of the searched
\* data sits exactly on an end of the exclusion interval.
C7_Witness ==
    /\ FAReturned
    /\ Len(fa.past_df) >= 1
    /\ Len(fa.present_df) >= 1
    /\ analogue_config.window_days >= 1
    /\ \E d \in fa.searched :
        Abs(d - fa.actual_snapshot) = analogue_config.window_days

\* C8 (as claimed): with a start or end year of either period unset,
\* find_analogues ends in an error, whatever the period argument.
C8_UnsetBoundaryRaises ==
    (fa.status # "start" /\ Unset(analogue_config)) => fa.status = "raised"

C10_ReferenceFromSnapshotYear ==
    (FAReturned
        /\ YearOf(event.snapshot_date) \notin {YearOf(d) : d \in fa.searched})
    => /\ fa.reference_from = "separate read"
       /\ YearOf(fa.actual_snapshot) = YearOf(event.snapshot_date)

\* The two configured year ranges have a year in common.
RangesOverlap ==
    \E y \in 2019..2020 :
        /\ InPeriod(y, Periods.past_start, Periods.past_end)
        /\ InPeriod(y, Periods.present_start, Periods.present_end)

DatesOf(rows) == {rows[k].date : k \in 1..Len(rows)}

\* C11: a date is in both the past and the present candidate subset only when
\* the two configured year ranges overlap; with ranges that share no year the
\* returned past and present lists have no date in common.
C11_SharedOnlyOnOverlap ==
    FAReturned =>
        /\ (fa.past_mask \cap fa.present_mask # {}) => RangesOverlap
        /\ ~RangesOverlap => DatesOf(fa.past_df) \cap DatesOf(fa.present_df) = {}

\* C11 witness: the ranges overlap and one date was returned in both lists,
\* while another candidate of the past subset is no present candidate.
C11_Witness ==
    /\ FAReturned
    /\ RangesOverlap
    /\ DatesOf(fa.past_df) \cap DatesOf(fa.present_df) # {}
    /\ fa.past_mask \ fa.present_mask # {}

----------------------------------------------------------------------------
(* The calendar-window slicers: dask_slice.py and cdo_slice.py *)

\* compute_calendar_mask(times, snapshot_date, window_days) of dask_slice.py
compute_calendar_mask(times, snapshot_date, window_days) ==
    LET ref_doy == DayOfYear(snapshot_date)
    IN  [i \in 1..Len(times) |->
            LET diff == Abs(DayOfYear(times[i]) - ref_doy)
            IN  Min(diff, 365 - diff) <= window_days]

\* compute_calendar_window_dates(snapshot_date, window_days, year) of
\* cdo_slice.py: the two date strings, as the dates they spell.
compute_calendar_window_dates(snapshot_date, window_days, year) ==
    LET month == MonthOf(snapshot_date)
        day == IF month = 2 /\ DayOf(snapshot_date) = 29 /\ ~IsLeap(year)
               THEN 28 ELSE DayOf(snapshot_date)
        base == Timestamp(year, month, day)
    IN  <<Strftime(base - window_days), Strftime(base + window_days)>>

MaxWindow == 2   \* largest snapshot_calendar_window, in days

\* Years of the anomaly files.
SliceYears == 2019..2021

\* Snapshot dates: the turn of the year, the days around the leap day and a
\* day of July, in a common year and in a leap year.
ReferenceDates ==
    {Timestamp(y, md[1], md[2]) :
        y \in {2019, 2020},
        md \in {<<1, 1>>, <<2, 28>>, <<3, 1>>, <<7, 1>>, <<12, 31>>}}
    \cup {Timestamp(2020, 2, 29)}

\* The time axis handed to the mask: three consecutive days of daily data.
DailyRun(t) == <<t, t + 1, t + 2>>

TimeAxes == {DailyRun(t) : t \in YearStart(2019)..(YearStart(2022) - 3)}

InitCal ==
    /\ SelIdle
    /\ sort_kind = "stable"
    /\ FAIdle
    /\ RunIdle
    /\ lw = NoOutcome
    /\ dm = NoOutcome
    /\ cal \in [status : {"start"}, snapshot_date : ReferenceDates,
                window_days : 0..MaxWindow, times : TimeAxes]

\* Both slicers are asked for the window of one snapshot: the dask slicer
\* masks the time axis, the CDO slicer names the window of every year.
SlicerCall ==
    /\ cal.status = "start"
    /\ cal' = [status |-> "returned",
               snapshot_date |-> cal.snapshot_date,
               window_days |-> cal.window_days,
               times |-> cal.times,
               mask |-> compute_calendar_mask(cal.times, cal.snapshot_date,
                                              cal.window_days),
               window |-> [y \in SliceYears |->
                   compute_calendar_window_dates(cal.snapshot_date,
                                                 cal.window_days, y)]]
    /\ UNCHANGED <<selvars, favars, lw, dm, runvars>>

NextCal == SlicerCall

SpecCal == InitCal /\ [][NextCal]_vars

----------------------------------------------------------------------------
(* Claims about the calendar window, checked under SpecCal *)

CalReturned == cal.status = "returned"

RefMonth == MonthOf(cal.snapshot_date)
RefDay == DayOf(cal.snapshot_date)

\* The reference's month and day name a date of year y.
RefExistsIn(y) == RefDay <= DaysInMonth(y, RefMonth)

\* The reference's month-day in year y; 28 February stands in for a 29
\* February that year y does not have.
Centre(y) == Timestamp(y, RefMonth, IF RefExistsIn(y) THEN RefDay ELSE 28)

\* Days between t and the nearest occurrence of the reference's month-day,
\* in the year of t or across a turn of the year.
CalendarDistance(t) ==
    LET y == YearOf(t)
    IN  Min(Abs(t - Centre(y)),
            Min(Abs(t - Centre(y - 1)), Abs(t - Centre(y + 1))))

\* C12 (as claimed): the mask includes every timestamp that falls on the
\* reference's month and day, in any year and for any window >= 0.
C12_MonthDayIncluded ==
    CalReturned =>
        \A i \in 1..Len(cal.times) :
            (MonthOf(cal.times[i]) = RefMonth /\ DayOf(cal.times[i]) = RefDay)
                => cal.mask[i]

\* C13 (as claimed): a timestamp exactly window+1 days before or after the
\* reference's month-day in the timestamp's own year is excluded, when the
\* window stays inside that year.
C13_JustOutsideExcluded ==
    CalReturned =>
        \A i \in 1..Len(cal.times) :
            LET y == YearOf(cal.times[i])
                w == cal.window_days
            IN  (/\ RefExistsIn(y)
                 /\ Centre(y) - (w + 1) >= YearStart(y)
                 /\ Centre(y) + (w + 1) < YearStart(y + 1)
                 /\ Abs(cal.times[i] - Centre(y)) = w + 1)
                => ~cal.mask[i]

\* C14 (as claimed): for a reference on 29 February and a year without a
\* leap day, both slicers centre the window on 28 February of that year.
C14_LeapDayOnFeb28 ==
    (CalReturned /\ RefMonth = 2 /\ RefDay = 29) =>
        /\ \A y \in {z \in SliceYears : ~IsLeap(z)} :
            cal.window[y] =
                <<Strftime(Timestamp(y, 2, 28) - cal.window_days),
                  Strftime(Timestamp(y, 2, 28) + cal.window_days)>>
        /\ \A i \in 1..Len(cal.times) :
            ~IsLeap(YearOf(cal.times[i])) =>
                (cal.mask[i] <=>
                    Abs(cal.times[i] - Timestamp(YearOf(cal.times[i]), 2, 28))
                        <= cal.window_days)

\* C15 (as claimed): a timestamp is in the mask exactly when its calendar
\* distance to the reference's month-day, taken across the turn of the year
\* when that is shorter, is at most the window.
C15_ExactCalendarDistance ==
    CalReturned =>
        \A i \in 1..Len(cal.times) :
            cal.mask[i] <=> CalendarDistance(cal.times[i]) <= cal.window_days

----------------------------------------------------------------------------
(* Specification SpecDM: one call of compute_euclidean_distances *)

\* The grid cells (lat, lon flattened) and the time steps of the series.
Cells == 1..2
TimeSteps == 1..2

\* A cell of a field is missing or holds a small anomaly; a weight is
\* missing (a 0/0 of the normalisation), zero or positive.
CellValues == {NaN, Num(0), Num(1)}
WeightValues == {NaN, Num(0), Num(1), Num(2)}

Fields == [Cells -> CellValues]

InitDM ==
    /\ SelIdle
    /\ sort_kind = "stable"
    /\ FAIdle
    /\ RunIdle
    /\ cal = NoOutcome
    /\ lw = NoOutcome
    /\ dm \in [status : {"start"}, data : [TimeSteps -> Fields],
               reference : Fields, lat_weights : [Cells -> WeightValues]]

DistanceCall ==
    /\ dm.status = "start"
    /\ dm' = [status |-> "returned",
              data |-> dm.data,
              reference |-> dm.reference,
              lat_weights |-> dm.lat_weights,
              distances |-> compute_euclidean_distances(
                                dm.data, dm.reference, dm.lat_weights)]
    /\ UNCHANGED <<selvars, favars, cal, lw, runvars>>

NextDM == DistanceCall

SpecDM == InitDM /\ [][NextDM]_vars

----------------------------------------------------------------------------
(* Claims about the distances *)

DMReturned == dm.status = "returned"

\* C16: when the reference equals the field of the series at a time step,
\* the distance of that time step is 0, whatever the series and the weights.
C16_ZeroAtReference ==
    DMReturned =>
        \A t \in TimeSteps :
            dm.data[t] = dm.reference => dm.distances[t] = Num(0)

\* C16 witness: the reference is the field of one time step, a field with a
\* non-zero cell of positive weight, and another time step is at a positive
\* distance.
C16_Witness ==
    /\ DMReturned
    /\ \E t \in TimeSteps :
        /\ dm.data[t] = dm.reference
        /\ \E c \in Cells :
            dm.reference[c] = Num(1) /\ dm.lat_weights[c] = Num(2)
    /\ \E u \in TimeSteps : dm.distances[u] # Num(0)

C20_NaNPropagates ==
    DMReturned =>
        \A t \in TimeSteps :
            /\ (\E c \in Cells : dm.data[t][c] = NaN)
                    => dm.distances[t] = NaN
            /\ (\A c \in Cells : dm.data[t][c] = NaN)
                    => dm.distances[t] # Num(0)

----------------------------------------------------------------------------
(* compute_latitude_weights, in fixed point: cosines and Gaussian factors *)
(* are thousandths, their products millionths, a quotient is the pair      *)
(* <<numerator, denominator>> and 0/0 is NaN.                              *)

\* np.cos(np.deg2rad(lat)), in thousandths.  At the pole the floating-point
\* cosine is 6e-17, which is 0 in thousandths.
CosMilli(lat) ==
    CASE lat = 0 -> 1000
      [] Abs(lat) = 30 -> 866
      [] Abs(lat) = 58 -> 530
      [] Abs(lat) = 60 -> 500
      [] Abs(lat) = 68 -> 375
      [] Abs(lat) = 78 -> 208
      [] Abs(lat) = 90 -> 0

\* np.exp(-d2 / (2 * sigma ** 2)) with sigma = 10, in thousandths, of a
\* squared distance d2 in square degrees.  The exponential of a double
\* underflows to exactly 0.0 once d2 / 200 exceeds 745.2.
ExpMilli(d2) ==
    CASE d2 = 0 -> 1000
      [] d2 = 100 -> 607
      [] d2 = 200 -> 368
      [] d2 > 149040 -> 0

\* The Gaussian emphasis around 68 S, 296 E.
Gaussian(lat, lon) ==
    ExpMilli((lat - (0 - 68)) * (lat - (0 - 68)) + (lon - 296) * (lon - 296))

RECURSIVE SeqSum(_)
SeqSum(w) == IF w = <<>> THEN 0 ELSE Head(w) + SeqSum(Tail(w))

\* a / b of two floats: 0/0 is NaN, and <<a, 0>> is an infinity.
Div(a, b) == IF a = 0 /\ b = 0 THEN NaN ELSE <<a, b>>

\* The weights before normalisation, cell by cell (rows of latitude).
UnnormalisedWeights(lat, lon) ==
    IF lon = None
    THEN [i \in 1..Len(lat) |-> CosMilli(lat[i])]
    ELSE [k \in 1..(Len(lat) * Len(lon[1])) |->
            LET i == ((k - 1) \div Len(lon[1])) + 1
                j == ((k - 1) % Len(lon[1])) + 1
            IN  CosMilli(lat[i]) * Gaussian(lat[i], lon[1][j])]

RECURSIVE SeqMax(_)
SeqMax(w) ==
    IF Len(w) = 1 THEN Head(w)
    ELSE IF Head(w) >= SeqMax(Tail(w)) THEN Head(w) ELSE SeqMax(Tail(w))

\* A plausible slip: the weights are scaled by their maximum, not their sum.
NormaliseByMax(weights) ==
    [k \in 1..Len(weights) |-> Div(weights[k], SeqMax(weights))]

\* weights / weights.sum(): an arithmetic of arrays, which raises nothing.
Normalise(weights) ==
    [k \in 1..Len(weights) |-> Div(weights[k], SeqSum(weights))]

compute_latitude_weights(lat, lon) == Normalise(UnnormalisedWeights(lat, lon))

----------------------------------------------------------------------------
(* Specification SpecLW: one call of compute_latitude_weights *)

Runs(axis) ==
    {SubSeq(axis, a, b) : a \in 1..Len(axis), b \in 1..Len(axis)} \ {<<>>}

\* Latitude axes without longitude: runs between the equator and the pole
\* that hold a latitude below the pole (the thousandths of the cosine are
\* then zero only where the weight is negligible).
LatAxes == Runs(<<0, 30, 60, 90>>) \ {<<90>>}

\* Axes of a region around the centre of the Gaussian, and longitudes of
\* the western hemisphere written in the -180..180 convention.
RegionLatAxes == Runs(<<0 - 78, 0 - 68, 0 - 58>>)
RegionLonAxes == Runs(<<286, 296, 306>>) \cup Runs(<<0 - 110, 0 - 100>>)

InitLW ==
    /\ SelIdle
    /\ sort_kind = "stable"
    /\ FAIdle
    /\ RunIdle
    /\ cal = NoOutcome
    /\ dm = NoOutcome
    /\ lw \in [status : {"start"}, lat : LatAxes, lon : {None}]
          \cup [status : {"start"}, lat : RegionLatAxes,
                lon : {Some(x) : x \in RegionLonAxes}]

WeightsCall ==
    /\ lw.status = "start"
    /\ lw' = [status |-> "returned", lat |-> lw.lat, lon |-> lw.lon,
              weights |-> compute_latitude_weights(lw.lat, lw.lon)]
    /\ UNCHANGED <<selvars, favars, cal, dm, runvars>>

NextLW == WeightsCall

SpecLW == InitLW /\ [][NextLW]_vars

----------------------------------------------------------------------------
(* Claims about the weights, checked under SpecLW *)

LWReturned == lw.status = "returned"

UnnormalisedSum == SeqSum(UnnormalisedWeights(lw.lat, lw.lon))

\* Every weight is a finite quotient.
AllFinite(weights) ==
    \A k \in 1..Len(weights) : weights[k] # NaN /\ weights[k][2] # 0

\* The quotients, of one common denominator, add up to 1.
SumsToOne(weights) ==
    /\ Len(weights) >= 1
    /\ AllFinite(weights)
    /\ \A k \in 1..Len(weights) : weights[k][2] = weights[1][2]
    /\ SeqSum([k \in 1..Len(weights) |-> weights[k][1]]) = weights[1][2]

\* C18: whenever the unnormalised weights do not sum to zero, with or
\* without a longitude axis, the returned weights sum to 1; for the
\* latitudes 0, 30, 60, 90 without longitude they are in the proportion
\* 1.0 : 0.866 : 0.5 : 0.0.
C18_WeightsSumToOne ==
    LWReturned =>
        /\ UnnormalisedSum # 0 => SumsToOne(lw.weights)
        /\ (lw.lat = <<0, 30, 60, 90>> /\ lw.lon = None) =>
            \A k \in 1..4 :
                lw.weights[k][1] * 1000 =
                    <<1000, 866, 500, 0>>[k] * lw.weights[1][1]

\* C18 witness: weights of a grid of two latitudes and two longitudes or
\* more were returned, not all equal, from a non-zero sum.
C18_Witness ==
    /\ LWReturned
    /\ lw.lon # None
    /\ Len(lw.lat) >= 2
    /\ Len(lw.lon[1]) >= 2
    /\ UnnormalisedSum # 0
    /\ \E k \in 1..Len(lw.weights) : lw.weights[k] # lw.weights[1]

\* C19 (as claimed): when the unnormalised weights sum to zero the call ends
\* in an error, and it never returns a missing or infinite weight.
C19_ZeroSumRaises ==
    /\ (lw.status # "start" /\ UnnormalisedSum = 0) => lw.status = "raised"
    /\ LWReturned => AllFinite(lw.weights)

----------------------------------------------------------------------------
(* A further claim about select_time_separated_analogues, under Spec *)

\* C27: the selection is maximal: when fewer than N records are returned,
\* every candidate that was not selected lies strictly less than
\* min_separation from a selected record.
C27_Maximal ==
    (Returned /\ Len(result) < n_analogues) =>
        \A i \in (1..Len(df_sorted)) \ ChosenSet :
            \E j \in ChosenSet :
                Abs(df_sorted[i].date - df_sorted[j].date) < min_separation

\* C27 witness: fewer than N records were returned, two of them exactly
\* min_separation apart, and a candidate was left out.
C27_Witness ==
    /\ Returned
    /\ Len(result) < n_analogues
    /\ ChosenSet # 1..Len(df_sorted)
    /\ \E i, j \in ChosenSet :
        /\ i # j
        /\ Abs(df_sorted[i].date - df_sorted[j].date) = min_separation

----------------------------------------------------------------------------
(* process_event, process_all_events and main of analogue_search.py, and   *)
(* main of select_analogues_from_distances.py.  A CSV file is the sequence  *)
(* of its rows; a date is written as the year, month and day it spells.     *)

\* DataFrame.to_csv(file, index=False)
ToCsv(rows) ==
    [k \in 1..Len(rows) |->
        [f \in DOMAIN rows[k] |->
            IF f = "date" THEN Strftime(rows[k].date) ELSE rows[k][f]]]

\* pd.read_csv(file) followed by pd.to_datetime on the date column
ReadCsv(csv) ==
    [k \in 1..Len(csv) |->
        [f \in DOMAIN csv[k] |->
            IF f = "date"
            THEN Timestamp(csv[k].date[1], csv[k].date[2], csv[k].date[3])
            ELSE csv[k][f]]]

\* past_df['period'] = 'past', present_df['period'] = 'present'
WithPeriod(rows, label) ==
    [k \in 1..Len(rows) |->
        [f \in (DOMAIN rows[k]) \cup {"period"} |->
            IF f = "period" THEN label ELSE rows[k][f]]]

\* The four output files of one event and suffix, none written yet.
NoFiles ==
    [distances |-> None, past |-> None, present |-> None, combined |-> None]

\* A plausible slip: the combined file is written first.
WriteOrderCombinedFirst == <<"combined", "distances", "past", "present">>

\* The order of the to_csv calls of process_event.
WriteOrder == <<"distances", "past", "present", "combined">>

\* The files process_event writes for a result of find_analogues.
DueFiles(out, per) ==
    {"distances", "combined"}
    \cup (IF out.past_df # <<>> \/ per # "present" THEN {"past"} ELSE {})
    \cup (IF out.present_df # <<>> \/ per # "past" THEN {"present"} ELSE {})

FileContents(out) ==
    [distances |-> ToCsv(out.all_distances),
     past |-> ToCsv(WithPeriod(out.past_df, "past")),
     present |-> ToCsv(WithPeriod(out.present_df, "present")),
     combined |-> ToCsv(WithPeriod(out.past_df, "past")
                        \o WithPeriod(out.present_df, "present"))]

\* The to_csv calls from the i-th on.  fail_at names the file whose to_csv
\* raises before it writes anything ("none": no call raises).
RECURSIVE WriteFrom(_, _, _, _, _, _)
WriteFrom(dir, contents, due, order, i, fail_at) ==
    IF i > Len(order) THEN [files |-> dir, ok |-> TRUE]
    ELSE IF order[i] \notin due
    THEN WriteFrom(dir, contents, due, order, i + 1, fail_at)
    ELSE IF order[i] = fail_at THEN [files |-> dir, ok |-> FALSE]
    ELSE WriteFrom([dir EXCEPT ![order[i]] = Some(contents[order[i]])],
                   contents, due, order, i + 1, fail_at)

NotCalled == [status |-> "not called"]

\* What process_event does with the outcome out of find_analogues: after a
\* raise it returns False; after a return it writes the files in order.
SaveResults(ev, ctx, dir, fail_at, order, out) ==
    IF out.status = "raised"
    THEN [name |-> ev.name, returned |-> FALSE, files |-> dir, fa |-> out]
    ELSE LET w == WriteFrom(dir, FileContents(out),
                            DueFiles(out, ctx.period), order, 1, fail_at)
         IN  [name |-> ev.name, returned |-> w.ok, files |-> w.files,
              fa |-> out]

\* The call of find_analogues of process_event.
Search(ev, ctx) ==
    find_analogues(ev, ctx.analogue_config, ctx.period, ctx.anom_files,
                   ctx.sliced_file, ctx.sort_kind)

\* A plausible slip: the distances file is opened for writing before the
\* search, so a failed search leaves it empty.
process_event_open_first(ev, ctx, skip_existing, dir, fail_at) ==
    IF skip_existing /\ dir.combined # None
    THEN [name |-> ev.name, returned |-> TRUE, files |-> dir, fa |-> NotCalled]
    ELSE SaveResults(ev, ctx, [dir EXCEPT !.distances = Some(<<>>)], fail_at,
                     WriteOrder, Search(ev, ctx))

\* A plausible slip: the --force option is not looked at.
process_event_always_skip(ev, ctx, skip_existing, dir, fail_at) ==
    IF dir.combined # None
    THEN [name |-> ev.name, returned |-> TRUE, files |-> dir, fa |-> NotCalled]
    ELSE SaveResults(ev, ctx, dir, fail_at, WriteOrder, Search(ev, ctx))

\* process_event(event, dataset, paths, analogue_config, period,
\* skip_existing) on the directory dir of the event: what it returns, the
\* files it leaves, and the outcome of its call of find_analogues.  ctx holds
\* the configuration, the period option and the anomaly files.
process_event(ev, ctx, skip_existing, dir, fail_at) ==
    IF skip_existing /\ dir.combined # None
    THEN [name |-> ev.name, returned |-> TRUE, files |-> dir, fa |-> NotCalled]
    ELSE SaveResults(ev, ctx, dir, fail_at, WriteOrder, Search(ev, ctx))

\* What a command keeps of one call of process_event.
RunOf(run) == [name |-> run.name, returned |-> run.returned, fa |-> run.fa]

\* The files and the runs once the call run of one event has ended and the
\* calls rest of the events after it.
Looped(run, rest) ==
    [files |-> rest.files, runs |-> <<RunOf(run)>> \o rest.runs]

\* A plausible slip: the loop over the events ends at the first failure.
RECURSIVE EventLoopBreak(_, _, _, _, _, _)
RECURSIVE BreakAfter(_, _, _, _, _, _, _)
EventLoopBreak(valid, i, ctx, skip_existing, files, fails) ==
    IF i > Len(valid) THEN [files |-> files, runs |-> <<>>]
    ELSE BreakAfter(valid, i, ctx, skip_existing, files, fails,
                    process_event(valid[i], ctx, skip_existing,
                                  files[valid[i].name], fails[valid[i].name]))

BreakAfter(valid, i, ctx, skip_existing, files, fails, run) ==
    IF ~run.returned
    THEN [files |-> [files EXCEPT ![run.name] = run.files],
          runs |-> <<RunOf(run)>>]
    ELSE Looped(run, EventLoopBreak(
                         valid, i + 1, ctx, skip_existing,
                         [files EXCEPT ![run.name] = run.files], fails))

\* for event in valid_events: success = process_event(...), from the i-th
\* event on.  fails gives, per event name, the to_csv call that raises.
RECURSIVE EventLoop(_, _, _, _, _, _)
RECURSIVE LoopAfter(_, _, _, _, _, _, _)
EventLoop(valid, i, ctx, skip_existing, files, fails) ==
    IF i > Len(valid) THEN [files |-> files, runs |-> <<>>]
    ELSE LoopAfter(valid, i, ctx, skip_existing, files, fails,
                   process_event(valid[i], ctx, skip_existing,
                                 files[valid[i].name], fails[valid[i].name]))

\* The rest of the loop once the call run of the i-th event has ended.
LoopAfter(valid, i, ctx, skip_existing, files, fails, run) ==
    Looped(run, EventLoop(valid, i + 1, ctx, skip_existing,
                          [files EXCEPT ![run.name] = run.files], fails))

HasSnapshot(e) == e.has_snapshot

\* The names of the events of the runs that printed an ERROR line.
Failed(runs) == {runs[k].name : k \in {j \in 1..Len(runs) : ~runs[j].returned}}

\* return all_success, after the loop.
AllSuccess(loop) ==
    [returned |-> \A k \in 1..Len(loop.runs) : loop.runs[k].returned,
     files |-> loop.files, runs |-> loop.runs,
     reported |-> Failed(loop.runs)]

\* process_all_events(dataset, period, skip_existing)
process_all_events(evs, ctx, skip_existing, files, fails) ==
    IF evs = <<>> \/ SelectSeq(evs, HasSnapshot) = <<>>
    THEN [returned |-> FALSE, files |-> files, runs |-> <<>>,
          reported |-> {}]
    ELSE AllSuccess(EventLoop(SelectSeq(evs, HasSnapshot), 1, ctx,
                              skip_existing, files, fails))

\* sys.exit(0 if success else 1) after process_event
ExitAfterEvent(files, run) ==
    [exit |-> IF run.returned THEN 0 ELSE 1,
     files |-> [files EXCEPT ![run.name] = run.files],
     runs |-> <<RunOf(run)>>,
     reported |-> Failed(<<RunOf(run)>>)]

\* main() with --event name: the exit status, the files, the runs.
main_event(name, evs, ctx, skip_existing, files, fail_at) ==
    LET found == SelectSeq(evs, LAMBDA e : e.name = name)
    IN  IF found = <<>>
        THEN [exit |-> 1, files |-> files, runs |-> <<>>, reported |-> {}]
        ELSE IF ~found[1].has_snapshot
        THEN [exit |-> 1, files |-> files, runs |-> <<>>, reported |-> {name}]
        ELSE ExitAfterEvent(files,
                            process_event(found[1], ctx, skip_existing,
                                          files[name], fail_at))

\* sys.exit(0 if success else 1) after process_all_events
ExitAfterAll(all) ==
    [exit |-> IF all.returned THEN 0 ELSE 1, files |-> all.files,
     runs |-> all.runs, reported |-> all.reported]

\* main() with --all
main_all(evs, ctx, skip_existing, files, fails) ==
    ExitAfterAll(process_all_events(evs, ctx, skip_existing, files, fails))

\* main() of select_analogues_from_distances.py on the directory dir, its
\* constants set to the year ranges, N and separation of config and to the
\* snapshot date of the event.
reselect_main(ev, config, kind, dir) ==
    IF dir.distances = None
    THEN [status |-> "raised", files |-> dir]
    ELSE
    LET table == ReadCsv(dir.distances[1])
        separation == config.window_days
        past_mask ==
            {table[i].date : i \in {j \in 1..Len(table) :
                /\ SeriesGe(table[j].year, config.periods.past_start)
                /\ SeriesLe(table[j].year, config.periods.past_end)
                /\ ~snapshot_exclusion(table[j].date, ev.snapshot_date,
                                       separation)}}
        present_mask ==
            {table[i].date : i \in {j \in 1..Len(table) :
                /\ SeriesGe(table[j].year, config.periods.present_start)
                /\ SeriesLe(table[j].year, config.periods.present_end)
                /\ ~snapshot_exclusion(table[j].date, ev.snapshot_date,
                                       separation)}}
        past_df == WithPeriod(select_time_separated_analogues(
                       Filter(table, past_mask, 1), config.n_analogues,
                       separation, kind), "past")
        present_df == WithPeriod(select_time_separated_analogues(
                          Filter(table, present_mask, 1), config.n_analogues,
                          separation, kind), "present")
    IN  [status |-> "returned",
         files |-> [dir EXCEPT !.past = Some(ToCsv(past_df)),
                               !.present = Some(ToCsv(present_df)),
                               !.combined = Some(ToCsv(past_df \o present_df))]]

----------------------------------------------------------------------------
(* Specification SpecRun: commands run one after another on one output     *)
(* directory, with one configuration and one --period option.              *)

EventNames == {"A", "B"}

\* Event A asks for 30 December 2019, a day the data lack, and event B for
\* 1 January 2020; an event may lack its snapshot_date.
EventChoices(name) ==
    {[name |-> name, has_snapshot |-> FALSE, snapshot_date |-> 0],
     [name |-> name, has_snapshot |-> TRUE,
      snapshot_date |-> IF name = "A" THEN 363 ELSE 365]}

\* extreme_events.yaml holds no event, event A, or events A and B, where B
\* has its snapshot_date.
EventLists ==
    {<<>>} \cup {<<a>> : a \in EventChoices("A")}
    \cup {<<a, b>> : a \in EventChoices("A"),
                     b \in {e \in EventChoices("B") : e.has_snapshot}}

\* The anomaly files: none, the two time steps of 2019, or all four; the
\* anomaly is 0 in 2019 and 1 in 2020.
RunFileSets ==
    {f \in FileSets :
        /\ DOMAIN f \in {{}, {362, 364}, Steps}
        /\ \A d \in DOMAIN f : f[d] = <<Num(YearOf(d) - 2019)>>}

\* Two analogues per period, one day of separation; the past period is
\* 2019 and the present period 2020.
RunConfigs ==
    [n_analogues : {2}, window_days : {1},
     periods : {c \in PeriodConfigs :
                  /\ c.past_start = Some(2019) /\ c.past_end = Some(2019)
                  /\ c.present_start = Some(2020)
                  /\ c.present_end = Some(2020)}]

\* The to_csv call that raises, if any.
FailPoints == {"none", "distances", "present"}

\* Names on the command line: the configured ones and an unknown one.
ArgNames == EventNames \cup {"Z"}

\* The configuration, the option and the data the commands run with.
Ctx ==
    [analogue_config |-> analogue_config, period |-> period,
     anom_files |-> anom_files, sliced_file |-> sliced_file,
     sort_kind |-> sort_kind]

InitRun ==
    /\ SelIdle
    /\ sort_kind = "stable"
    /\ event = NoEvent
    /\ fa = NoOutcome
    /\ analogue_config \in RunConfigs
    /\ period \in {"none", "past", "present"}
    /\ anom_files \in RunFileSets
    /\ sliced_file = None
    /\ GridIdle
    /\ cs = NoOutcome
    /\ events \in EventLists
    /\ out_files = [n \in {events[k].name : k \in 1..Len(events)} |-> NoFiles]
    /\ pe = NoOutcome

RunFrame ==
    UNCHANGED <<selvars, favars, gridvars, events, cs>>

\* A failing to_csv call in at most one event of a run over all events.
FailChoices(names) ==
    {[n \in names |-> IF n = m THEN at ELSE "none"] :
        m \in names \cup {"Z"}, at \in FailPoints}

\* python analogue_search.py --dataset D --event name [--period P] [--force]
MainEventCall ==
    \E name \in ArgNames, force \in BOOLEAN, fail_at \in FailPoints :
        \E done \in {main_event(name, events, Ctx, ~force, out_files, fail_at)} :
            /\ out_files' = done.files
            /\ pe' = [op |-> "event", arg |-> name, skip_existing |-> ~force,
                      exit |-> done.exit, runs |-> done.runs,
                      reported |-> done.reported]
            /\ RunFrame

\* python analogue_search.py --dataset D --all [--period P] [--force]
MainAllCall ==
    \E force \in BOOLEAN, fails \in FailChoices(DOMAIN out_files) :
        \E done \in {main_all(events, Ctx, ~force, out_files, fails)} :
            /\ out_files' = done.files
            /\ pe' = [op |-> "all", arg |-> "", skip_existing |-> ~force,
                      exit |-> done.exit, runs |-> done.runs,
                      reported |-> done.reported]
            /\ RunFrame

\* python select_analogues_from_distances.py, edited to the configuration
\* of the run and pointed at the all_distances.csv of one event.
ReselectCall ==
    /\ period = "none"
    /\ ~Unset(analogue_config)
    /\ \E k \in 1..Len(events) :
        /\ events[k].has_snapshot
        /\ \E done \in {reselect_main(events[k], analogue_config, sort_kind,
                                       out_files[events[k].name])} :
               /\ out_files' = [out_files EXCEPT ![events[k].name] = done.files]
               /\ pe' = [op |-> "reselect", name |-> events[k].name,
                         status |-> done.status]
    /\ RunFrame

\* Between two commands the anomaly files are computed anew or removed.
DataChange ==
    /\ anom_files' \in RunFileSets
    /\ UNCHANGED <<selvars, event, analogue_config, period, sliced_file, fa,
                   gridvars, runvars>>

NextRun == MainEventCall \/ MainAllCall \/ ReselectCall \/ DataChange

SpecRun == InitRun /\ [][NextRun]_vars

----------------------------------------------------------------------------
(* Claims about the commands *)

\* The calls of process_event of the last command.
LastRuns ==
    IF pe # NoOutcome /\ pe.op \in {"event", "all"} THEN pe.runs ELSE <<>>

\* The candidate set of a processed period is empty after filtering.
EmptyCandidates(out, per) ==
    \/ per # "present" /\ out.past_mask = {}
    \/ per # "past" /\ out.present_mask = {}

\* C21: when the candidate set of a processed period is empty after
\* filtering, the event is not a success: process_event returns False.
C21_EmptyCandidatesFatal ==
    \A k \in 1..Len(LastRuns) :
        (/\ LastRuns[k].fa.status = "returned"
         /\ EmptyCandidates(LastRuns[k].fa, period))
            => ~LastRuns[k].returned

\* The events of the list that lack snapshot_date.
WithoutSnapshot == {events[k].name : k \in {j \in 1..Len(events) : ~events[j].has_snapshot}}

\* C22: an event without snapshot_date is reported and makes the command
\* exit non-zero, when it is named with --event and when it is in the list
\* run with --all.
C22_MissingSnapshotFatal ==
    \A name \in WithoutSnapshot :
        /\ (pe # NoOutcome /\ pe.op = "event" /\ pe.arg = name)
               => (pe.exit # 0 /\ name \in pe.reported)
        /\ (pe # NoOutcome /\ pe.op = "all") => pe.exit # 0

\* C23: when find_analogues raises, process_event returns False and the four
\* output files of that event and suffix are as they were before the call.
C23_FailedSearchLeavesFiles ==
    [][\A k \in 1..Len(LastRuns') :
          LastRuns'[k].fa.status = "raised" =>
              /\ ~LastRuns'[k].returned
              /\ out_files'[LastRuns'[k].name] = out_files[LastRuns'[k].name]]_vars

\* A search has failed for an event whose four files were already there.
C23_Witness ==
    \E k \in 1..Len(LastRuns) :
        /\ LastRuns[k].fa.status = "raised"
        /\ ~LastRuns[k].returned
        /\ \A f \in DOMAIN NoFiles : out_files[LastRuns[k].name][f] # None

\* The names of the events of a list, in order.
NamesOf(list) == [k \in 1..Len(list) |-> list[k].name]

\* The events process_all_events is to attempt.
ValidEvents == SelectSeq(events, HasSnapshot)

\* C24: a run over all events attempts every event that has a snapshot
\* date, in order, whatever failed before; it returns False when one of them
\* failed; the files of an event are changed by that event's own call only:
\* an event not attempted keeps its files and an event that succeeded has
\* its own results in its files, whichever other event failed.
C24_EveryEventAttempted ==
    [][(pe' # NoOutcome /\ pe'.op = "all" /\ ValidEvents # <<>>) =>
          /\ NamesOf(pe'.runs) = NamesOf(ValidEvents)
          /\ (\E k \in 1..Len(pe'.runs) : ~pe'.runs[k].returned)
                 => pe'.exit # 0
          /\ \A name \in DOMAIN out_files :
                 (\A k \in 1..Len(pe'.runs) : pe'.runs[k].name # name)
                     => out_files'[name] = out_files[name]
          /\ \A k \in 1..Len(pe'.runs) :
                 (pe'.runs[k].returned /\ pe'.runs[k].fa.status = "returned")
                     => \A f \in DueFiles(pe'.runs[k].fa, period) :
                            out_files'[pe'.runs[k].name][f]
                                = Some(FileContents(pe'.runs[k].fa)[f])]_vars

\* The first event failed over files written before, the second was
\* searched and written after it, and the run returned False.
C24_Witness ==
    /\ pe # NoOutcome /\ pe.op = "all" /\ Len(pe.runs) = 2
    /\ ~pe.runs[1].returned
    /\ pe.runs[2].returned /\ pe.runs[2].fa.status = "returned"
    /\ pe.exit = 1
    /\ \A n \in DOMAIN out_files : out_files[n].combined # None

\* The dates and ranks of a list of analogues.
DatesRanks(rows) == [k \in 1..Len(rows) |-> <<rows[k].date, rows[k].rank>>]

\* C25: re-selecting from the all_distances table a search has just written,
\* with the year ranges, N, separation and snapshot date of that search,
\* gives the past and present lists (dates and ranks) the search produced.
C25_ReselectionAgrees ==
    [][\A k \in 1..Len(LastRuns) :
          (/\ pe' # NoOutcome /\ pe'.op = "reselect"
           /\ pe'.name = LastRuns[k].name /\ pe'.status = "returned"
           /\ LastRuns[k].returned /\ LastRuns[k].fa.status = "returned")
          => /\ DatesRanks(out_files'[pe'.name].past[1])
                    = DatesRanks(ToCsv(LastRuns[k].fa.past_df))
             /\ DatesRanks(out_files'[pe'.name].present[1])
                    = DatesRanks(ToCsv(LastRuns[k].fa.present_df))]_vars

\* C26: with skip_existing true and the combined file there, process_event
\* returns True without calling find_analogues and without writing; with
\* skip_existing false (--force) it calls find_analogues whatever is there
\* and, when it succeeds, the files hold the new results.
C26_SkipExistingOrForce ==
    [][anom_files' = anom_files =>
          \A k \in 1..Len(LastRuns') :
              LET run == LastRuns'[k]
                  before == out_files[run.name]
                  after == out_files'[run.name]
              IN  /\ (pe'.skip_existing /\ before.combined # None) =>
                         /\ run.returned
                         /\ run.fa = NotCalled
                         /\ after = before
                  /\ ~pe'.skip_existing =>
                         /\ run.fa # NotCalled
                         /\ (run.fa.status = "returned" /\ run.returned) =>
                                \A f \in DueFiles(run.fa, period) :
                                    after[f] = Some(FileContents(run.fa)[f])]_vars

\* An event was skipped over its combined file.
C26_Witness ==
    \E k \in 1..Len(LastRuns) :
        /\ pe.skip_existing
        /\ LastRuns[k].fa = NotCalled
        /\ LastRuns[k].returned
        /\ out_files[LastRuns[k].name].combined # None

\* C28: whatever commands have run, and wherever a to_csv call raised, an
\* event whose combined file is there has its all_distances file and each
\* per-period file due under the --period option.
C28_CombinedFileLast ==
    \A name \in DOMAIN out_files :
        out_files[name].combined # None =>
            /\ out_files[name].distances # None
            /\ period # "present" => out_files[name].past # None
            /\ period # "past" => out_files[name].present # None

\* A call was interrupted by a failing write over a complete set of files.
C28_Witness ==
    \E k \in 1..Len(LastRuns) :
        /\ LastRuns[k].fa.status = "returned"
        /\ ~LastRuns[k].returned
        /\ out_files[LastRuns[k].name].combined # None

----------------------------------------------------------------------------
(* The two slicers side by side *)

\* The date a YYYY-MM-DD string spells.
ToDate(str) == Timestamp(str[1], str[2], str[3])

\* cdo -seldate,start,end on the file of the year of t, with the window
\* create_sliced_anomaly computed for that year: whether t is kept.
SeldateKeeps(window, t) ==
    /\ ToDate(window[YearOf(t)][1]) <= t
    /\ t <= ToDate(window[YearOf(t)][2])

\* C30: for one snapshot date, window and set of years, the CDO slicer and
\* the dask slicer keep the same time steps.
C30_SlicersAgree ==
    CalReturned =>
        \A i \in 1..Len(cal.times) :
            cal.mask[i] <=> SeldateKeeps(cal.window, cal.times[i])

----------------------------------------------------------------------------
(* create_sliced_anomaly of cdo_slice.py *)

\* The time steps of anomaly_{var}_{year}.nc; the file is there when it
\* holds a time step.
YearFile(files, year) == {t \in DOMAIN files : YearOf(t) = year}

\* A call that raised: what is in _work and the output file stay.
SliceRaised(e, dir, years, results, input) ==
    [status |-> "raised", error |-> e, work |-> dir.work, out |-> dir.out,
     tasks |-> years, results |-> results, merged |-> input]

\* One call on the directory dir of the event: dir.work maps the years of
\* the per-year files of _work to the time steps they hold, dir.out is the
\* merged file.  env gives what the surroundings do: whether cdo is in the
\* PATH, per year whether f.result() returns ("ok") or raises, and whether
\* cdo -mergetime exits with 0.
create_sliced_anomaly(ev, config, files, dir, env) ==
    IF ~env.cdo_available
    THEN SliceRaised("RuntimeError", dir, {}, <<>>, None)
    ELSE IF ~ev.has_snapshot
    THEN SliceRaised("KeyError", dir, {}, <<>>, None)
    ELSE IF config.periods.past_start = None
            \/ config.periods.present_end = None
    THEN SliceRaised("ValueError", dir, {}, <<>>, None)
    ELSE
    LET start_year == config.periods.past_start[1]
        end_year == config.periods.present_end[1]
        window_days == config.snapshot_calendar_window
        years == {y \in start_year..end_year : YearFile(files, y) # {}}
        window == [y \in years |->
                      compute_calendar_window_dates(ev.snapshot_date,
                                                    window_days, y)]
        results == [y \in years |-> env.results[y]]
        done == {y \in years : results[y] = "ok"}
        \* _work once every task has ended: a task that ran to its end has
        \* written its file over what was there.
        pooled == [y \in (DOMAIN dir.work) \cup done |->
                      IF y \in done
                      THEN {t \in YearFile(files, y) : SeldateKeeps(window, t)}
                      ELSE dir.work[y]]
        after_pool == [work |-> pooled, out |-> dir.out]
        \* sorted(work_dir.glob(f"anomaly_{var}_*_sliced.nc"))
        year_files == DOMAIN pooled
    IN  IF years = {}
        THEN SliceRaised("FileNotFoundError", dir, {}, <<>>, None)
        ELSE IF done # years
        THEN SliceRaised("RuntimeError", after_pool, years, results, None)
        ELSE IF ~env.merge_ok
        THEN SliceRaised("RuntimeError", after_pool, years, results,
                         Some(year_files))
        ELSE [status |-> "returned", error |-> "",
              work |-> <<>>,
              out |-> Some(UNION {pooled[y] : y \in year_files}),
              tasks |-> years, results |-> results,
              merged |-> Some(year_files)]

----------------------------------------------------------------------------
(* Specification SpecSlice: calls of create_sliced_anomaly for one event    *)
(* and one configuration, on one output directory.                         *)

\* The years an anomaly file can be there for.
FileYears == {2019, 2020}

\* The anomaly files hold no year, one of the two years, or both.
SliceFileSets ==
    {f \in FileSets :
        /\ \E ys \in SUBSET FileYears :
               DOMAIN f = {t \in Steps : YearOf(t) \in ys}
        /\ \A d \in DOMAIN f : f[d] = <<Num(YearOf(d) - 2019)>>}

SliceEvents == EventChoices("A") \cup EventChoices("B")

\* The past period ends in 2019 and the present one starts in 2020;
\* periods.past.start_year and periods.present.end_year are set or not.
SliceConfigs ==
    [n_analogues : {2}, window_days : {1},
     snapshot_calendar_window : 0..MaxWindow,
     periods : {c \in PeriodConfigs :
                  c.past_end = Some(2019) /\ c.present_start = Some(2020)}]

SliceEnvs ==
    [cdo_available : BOOLEAN, results : [FileYears -> {"ok", "raised"}],
     merge_ok : BOOLEAN]

InitSlice ==
    /\ SelIdle
    /\ sort_kind = "stable"
    /\ GridIdle
    /\ event \in SliceEvents
    /\ analogue_config \in SliceConfigs
    /\ period = "none"
    /\ anom_files \in SliceFileSets
    /\ sliced_file = None
    /\ fa = NoOutcome
    /\ events = <<>>
    /\ out_files = <<>>
    /\ pe = NoOutcome
    /\ cs = [status |-> "start", work |-> <<>>, out |-> None]

\* python cdo_slice.py --dataset D --event E
CreateSlicedCall ==
    /\ \E env \in SliceEnvs :
           cs' = create_sliced_anomaly(event, analogue_config, anom_files,
                                       [work |-> cs.work, out |-> cs.out], env)
    /\ UNCHANGED <<selvars, favars, gridvars, events, out_files, pe>>

\* Between two calls the anomaly file of a year is computed or removed.
YearFilesChange ==
    /\ anom_files' \in SliceFileSets
    /\ UNCHANGED <<selvars, event, analogue_config, period, sliced_file, fa,
                   gridvars, runvars>>

NextSlice == CreateSlicedCall \/ YearFilesChange

SpecSlice == InitSlice /\ [][NextSlice]_vars

====
